---- MODULE Spec2Model ----
(***************************************************************************)
(* Model of plaidapp/views.py: the token-exchange view                     *)
(* ObtainAccessTokenView.post and the two list views.                      *)
(*                                                                         *)
(* A request is a process that moves through the blocking points of post:  *)
(* the provider call, the database write and the three queue submissions.  *)
(* Concurrent requests interleave at those points and share the PlaidItem  *)
(* table and the broker.  The outcome of each external call (provider,     *)
(* database, broker) is chosen nondeterministically.                       *)
(***************************************************************************)
EXTENDS Integers, Sequences, FiniteSets, TLC

\* ---------------------------------------------------------------- bounds
\* Number of token-exchange requests (concurrent or sequential).
NumReqs == 2
\* Number of distinct items the background jobs may write rows for.
MaxItems == 2

\* ------------------------------------------------------------- constants
\* countdown=20 of fetch_transactions.apply_async
Countdown == 20

Reqs == 1..NumReqs
\* Authenticated users, by id (permissions.IsAuthenticated).
Users == {1, 2}
\* request.data: no public token at all, an empty one, or a token.
NoToken == "<missing>"
RequestData == {NoToken, "", "public-tok"}
\* What the provider's exchange can answer with on success.
ExchangeResponses ==
    { [access_token |-> "access-1", item_id |-> "item-1", request_id |-> "rq1"],
      [access_token |-> "access-2", item_id |-> "item-2", request_id |-> "rq2"] }
\* The PlaidError instances the provider's exchange can raise.
PlaidErrors ==
    { [type |-> "INVALID_INPUT", code |-> "INVALID_PUBLIC_TOKEN", request_id |-> "rq3"],
      [type |-> "API_ERROR", code |-> "INTERNAL_SERVER_ERROR", request_id |-> "rq4"] }
\* The three tasks, in the order post submits them.
Tasks == <<"fetch_item_metadata", "fetch_accounts_data", "fetch_transactions">>

None == [none |-> TRUE]
NoResponse == [status |-> 0]
NoException == [exc |-> "none"]

VARIABLES
    pc,                \* position of each request in post
    request,           \* request.user and request.data of each request
    exchange_response, \* local exchange_response of post
    plaid_item,        \* identifier of the local plaid_item, 0 before it exists
    step,              \* index in Tasks of the next apply_async call
    submitted,         \* apply_async calls of the request that returned
    raised,            \* the exception raised inside the request, if any
    exchangeCalls,     \* calls of client.Item.public_token.exchange
    response,          \* the Response returned (status 500: unhandled exception)
    plaidItems,        \* the PlaidItem table, in insertion order
    broker,            \* messages published to the broker
    accounts,          \* the Account table
    transactions,      \* the Transaction table
    listed             \* the last list response

reqVars == <<pc, request, exchange_response, plaid_item, step, submitted,
             raised, exchangeCalls, response, plaidItems, broker>>
tableVars == <<accounts, transactions, listed>>
vars == <<pc, request, exchange_response, plaid_item, step, submitted, raised,
          exchangeCalls, response, plaidItems, broker, accounts, transactions,
          listed>>

Init ==
    /\ pc = [r \in Reqs |-> "idle"]
    /\ request = [r \in Reqs |-> None]
    /\ exchange_response = [r \in Reqs |-> None]
    /\ plaid_item = [r \in Reqs |-> 0]
    /\ step = [r \in Reqs |-> 1]
    /\ submitted = [r \in Reqs |-> <<>>]
    /\ raised = [r \in Reqs |-> NoException]
    /\ exchangeCalls = [r \in Reqs |-> 0]
    /\ response = [r \in Reqs |-> NoResponse]
    /\ plaidItems = <<>>
    /\ broker = {}
    /\ accounts = {}
    /\ transactions = {}
    /\ listed = None

\* ------------------------------------------------------- ObtainAccessTokenView

\* PublicTokenForm(request.data).is_valid(): the public token is required and
\* may not be empty.
is_valid(data) == data \notin {NoToken, ""}

\* Response of the else branch: validation failed.
ValidationFailed ==
    [status |-> 400, message |-> "Validation failed.", errors |-> "public_token"]

\* Response of the except PlaidError branch.
ExchangeFailed(e) == [status |-> 400, message |-> e.code]

\* Response at the end of the is_valid branch.
AccountAdded ==
    [status |-> 201, message |-> "Account added successfully.", success |-> TRUE]

\* An exception nothing in post catches: the framework answers 500.
ServerError == [status |-> 500]

\* Post without the is_valid test: every request goes on to the exchange.
Post_Unvalidated(r, u, data) ==
    /\ pc[r] = "idle"
    /\ \A q \in Reqs : q < r => pc[q] # "idle"
    /\ request' = [request EXCEPT ![r] = [user |-> u, data |-> data]]
    /\ pc' = [pc EXCEPT ![r] = "exchange"]
    /\ UNCHANGED <<exchange_response, plaid_item, step, submitted, raised,
                   exchangeCalls, response, plaidItems, broker>>
    /\ UNCHANGED tableVars

\* The request arrives; the form is built and validated.
Post(r, u, data) ==
    /\ pc[r] = "idle"
    \* requests are numbered in the order they arrive
    /\ \A q \in Reqs : q < r => pc[q] # "idle"
    /\ request' = [request EXCEPT ![r] = [user |-> u, data |-> data]]
    /\ IF is_valid(data)
         THEN /\ pc' = [pc EXCEPT ![r] = "exchange"]
              /\ UNCHANGED response
         ELSE /\ pc' = [pc EXCEPT ![r] = "done"]
              /\ response' = [response EXCEPT ![r] = ValidationFailed]
    /\ UNCHANGED <<exchange_response, plaid_item, step, submitted, raised,
                   exchangeCalls, plaidItems, broker>>
    /\ UNCHANGED tableVars

\* client.Item.public_token.exchange(public_token) returns.
ExchangeOk(r, resp) ==
    /\ pc[r] = "exchange"
    /\ exchangeCalls' = [exchangeCalls EXCEPT ![r] = @ + 1]
    /\ exchange_response' = [exchange_response EXCEPT ![r] = resp]
    /\ pc' = [pc EXCEPT ![r] = "save"]
    /\ UNCHANGED <<request, plaid_item, step, submitted, raised, response,
                   plaidItems, broker>>
    /\ UNCHANGED tableVars

\* The except PlaidError branch answering with the error's type.
ExchangeFail_Type(r, e) ==
    /\ pc[r] = "exchange"
    /\ exchangeCalls' = [exchangeCalls EXCEPT ![r] = @ + 1]
    /\ raised' = [raised EXCEPT ![r] =
                    [exc |-> "PlaidError", type |-> e.type, code |-> e.code]]
    /\ response' = [response EXCEPT ![r] = [status |-> 400, message |-> e.type]]
    /\ pc' = [pc EXCEPT ![r] = "done"]
    /\ UNCHANGED <<request, exchange_response, plaid_item, step, submitted,
                   plaidItems, broker>>
    /\ UNCHANGED tableVars

\* The except PlaidError branch calling the exchange once more before it
\* gives up.
ExchangeFail_Retry(r, e) ==
    /\ pc[r] = "exchange"
    /\ exchangeCalls' = [exchangeCalls EXCEPT ![r] = @ + 1]
    /\ IF exchangeCalls[r] = 0
         THEN UNCHANGED <<raised, response, pc>>
         ELSE /\ raised' = [raised EXCEPT ![r] =
                    [exc |-> "PlaidError", type |-> e.type, code |-> e.code]]
              /\ response' = [response EXCEPT ![r] = ExchangeFailed(e)]
              /\ pc' = [pc EXCEPT ![r] = "done"]
    /\ UNCHANGED <<request, exchange_response, plaid_item, step, submitted,
                   plaidItems, broker>>
    /\ UNCHANGED tableVars

\* client.Item.public_token.exchange(public_token) raises PlaidError e.
ExchangeFail(r, e) ==
    /\ pc[r] = "exchange"
    /\ exchangeCalls' = [exchangeCalls EXCEPT ![r] = @ + 1]
    /\ raised' = [raised EXCEPT ![r] =
                    [exc |-> "PlaidError", type |-> e.type, code |-> e.code]]
    /\ response' = [response EXCEPT ![r] = ExchangeFailed(e)]
    /\ pc' = [pc EXCEPT ![r] = "done"]
    /\ UNCHANGED <<request, exchange_response, plaid_item, step, submitted,
                   plaidItems, broker>>
    /\ UNCHANGED tableVars

\* The row PlaidItem(access_token=..., item_id=..., user=request.user) once
\* saved under a fresh identifier.
NewPlaidItem(r, ident) ==
    [identifier |-> ident,
     access_token |-> exchange_response[r].access_token,
     item_id |-> exchange_response[r].item_id,
     user |-> request[r].user]

\* plaid_item.save() returns: the row is in the table.
SaveOk(r) ==
    /\ pc[r] = "save"
    /\ LET ident == Len(plaidItems) + 1 IN
         /\ plaidItems' = Append(plaidItems, NewPlaidItem(r, ident))
         /\ plaid_item' = [plaid_item EXCEPT ![r] = ident]
    /\ pc' = [pc EXCEPT ![r] = "submit"]
    /\ UNCHANGED <<request, exchange_response, step, submitted, raised,
                   exchangeCalls, response, broker>>
    /\ UNCHANGED tableVars

\* A failed save that is swallowed: post goes on to dispatch with the
\* identifier of the unsaved instance.
SaveFail_Swallowed(r) ==
    /\ pc[r] = "save"
    /\ raised' = [raised EXCEPT ![r] = [exc |-> "DatabaseError"]]
    /\ plaid_item' = [plaid_item EXCEPT ![r] = Len(plaidItems) + 1]
    /\ pc' = [pc EXCEPT ![r] = "submit"]
    /\ UNCHANGED <<request, exchange_response, step, submitted, response,
                   exchangeCalls, plaidItems, broker>>
    /\ UNCHANGED tableVars

\* plaid_item.save() raises: nothing catches it, nothing is written.
SaveFail(r) ==
    /\ pc[r] = "save"
    /\ raised' = [raised EXCEPT ![r] = [exc |-> "DatabaseError"]]
    /\ response' = [response EXCEPT ![r] = ServerError]
    /\ pc' = [pc EXCEPT ![r] = "done"]
    /\ UNCHANGED <<request, exchange_response, plaid_item, step, submitted,
                   exchangeCalls, plaidItems, broker>>
    /\ UNCHANGED tableVars

\* Every job submitted without a countdown.
Job_NoCountdown(r, k) ==
    [task |-> Tasks[k],
     args |-> <<request[r].user, plaid_item[r]>>,
     countdown |-> 0]

\* The message of the k-th apply_async call of request r.
Job(r, k) ==
    [task |-> Tasks[k],
     args |-> <<request[r].user, plaid_item[r]>>,
     countdown |-> IF k = 3 THEN Countdown ELSE 0]

\* The next apply_async call returns: the message is published.  After the
\* third one post logs and returns 201.
SubmitOk(r) ==
    /\ pc[r] = "submit"
    /\ broker' = broker \cup {Job(r, step[r])}
    /\ submitted' = [submitted EXCEPT ![r] = Append(@, Job(r, step[r]))]
    /\ IF step[r] < Len(Tasks)
         THEN /\ step' = [step EXCEPT ![r] = @ + 1]
              /\ UNCHANGED <<pc, response>>
         ELSE /\ pc' = [pc EXCEPT ![r] = "done"]
              /\ response' = [response EXCEPT ![r] = AccountAdded]
              /\ UNCHANGED step
    /\ UNCHANGED <<request, exchange_response, plaid_item, raised,
                   exchangeCalls, plaidItems>>
    /\ UNCHANGED tableVars

\* No except clause: the OperationalError leaves post.
SubmitOperationalError_Uncaught(r) ==
    /\ pc[r] = "submit"
    /\ raised' = [raised EXCEPT ![r] = [exc |-> "OperationalError"]]
    /\ response' = [response EXCEPT ![r] = ServerError]
    /\ pc' = [pc EXCEPT ![r] = "done"]
    /\ UNCHANGED <<request, exchange_response, plaid_item, step, submitted,
                   exchangeCalls, plaidItems, broker>>
    /\ UNCHANGED tableVars

\* Each apply_async call in a try block of its own: after an OperationalError
\* post goes on with the next call.
SubmitOperationalError_Continue(r) ==
    /\ pc[r] = "submit"
    /\ raised' = [raised EXCEPT ![r] = [exc |-> "OperationalError"]]
    /\ IF step[r] < Len(Tasks)
         THEN /\ step' = [step EXCEPT ![r] = @ + 1]
              /\ UNCHANGED <<pc, response>>
         ELSE /\ pc' = [pc EXCEPT ![r] = "done"]
              /\ response' = [response EXCEPT ![r] = AccountAdded]
              /\ UNCHANGED step
    /\ UNCHANGED <<request, exchange_response, plaid_item, submitted,
                   exchangeCalls, plaidItems, broker>>
    /\ UNCHANGED tableVars

\* The next apply_async call raises OperationalError: the except clause logs
\* it, the remaining calls of the try block are skipped, post returns 201.
SubmitOperationalError(r) ==
    /\ pc[r] = "submit"
    /\ raised' = [raised EXCEPT ![r] = [exc |-> "OperationalError"]]
    /\ response' = [response EXCEPT ![r] = AccountAdded]
    /\ pc' = [pc EXCEPT ![r] = "done"]
    /\ UNCHANGED <<request, exchange_response, plaid_item, step, submitted,
                   exchangeCalls, plaidItems, broker>>
    /\ UNCHANGED tableVars

\* except Exception: every error of a submission is logged and swallowed.
SubmitOtherError_Caught(r) ==
    /\ pc[r] = "submit"
    /\ raised' = [raised EXCEPT ![r] = [exc |-> "OtherError"]]
    /\ response' = [response EXCEPT ![r] = AccountAdded]
    /\ pc' = [pc EXCEPT ![r] = "done"]
    /\ UNCHANGED <<request, exchange_response, plaid_item, step, submitted,
                   exchangeCalls, plaidItems, broker>>
    /\ UNCHANGED tableVars

\* The next apply_async call raises an exception that is no OperationalError
\* (an encoding error of the arguments, say): the except clause does not
\* match, the exception leaves post.
SubmitOtherError(r) ==
    /\ pc[r] = "submit"
    /\ raised' = [raised EXCEPT ![r] = [exc |-> "OtherError"]]
    /\ response' = [response EXCEPT ![r] = ServerError]
    /\ pc' = [pc EXCEPT ![r] = "done"]
    /\ UNCHANGED <<request, exchange_response, plaid_item, step, submitted,
                   exchangeCalls, plaidItems, broker>>
    /\ UNCHANGED tableVars

\* ------------------------------------------------- background jobs, list views

\* Arguments a published job can carry: the id of a user and the identifier
\* of one of that user's items.
JobArgs == Users \X (1..MaxItems)

\* The fetch_accounts_data job writes an Account row owned by the user whose
\* id it was given.
RunFetchAccounts(args) ==
    /\ accounts' = accounts \cup {[user |-> args[1], item |-> args[2]]}
    /\ UNCHANGED <<transactions, listed>>
    /\ UNCHANGED reqVars

\* The fetch_transactions job writes a Transaction row owned by the user whose
\* id it was given.
RunFetchTransactions(args) ==
    /\ transactions' = transactions \cup {[user |-> args[1], item |-> args[2]]}
    /\ UNCHANGED <<accounts, listed>>
    /\ UNCHANGED reqVars

\* AccountsListView.get_queryset: Account.objects.filter(user=request.user)
AccountsQuerySet(u) == {a \in accounts : a.user = u}

\* The transactions list without the filter on the user.
TransactionsQuerySet_All(u) == transactions

\* TransactionListView.get_queryset:
\* Transaction.objects.filter(user=request.user)
TransactionsQuerySet(u) == {t \in transactions : t.user = u}

\* GET of the accounts list by user u.
AccountsList(u) ==
    /\ listed' = [view |-> "accounts", user |-> u, rows |-> AccountsQuerySet(u)]
    /\ UNCHANGED <<accounts, transactions>>
    /\ UNCHANGED reqVars

\* GET of the transactions list by user u.
TransactionList(u) ==
    /\ listed' = [view |-> "transactions", user |-> u,
                  rows |-> TransactionsQuerySet(u)]
    /\ UNCHANGED <<accounts, transactions>>
    /\ UNCHANGED reqVars

Next ==
    \/ \E r \in Reqs, u \in Users, data \in RequestData : Post(r, u, data)
    \/ \E r \in Reqs, resp \in ExchangeResponses : ExchangeOk(r, resp)
    \/ \E r \in Reqs, e \in PlaidErrors : ExchangeFail(r, e)
    \/ \E r \in Reqs : SaveOk(r)
    \/ \E r \in Reqs : SaveFail(r)
    \/ \E r \in Reqs : SubmitOk(r)
    \/ \E r \in Reqs : SubmitOperationalError(r)
    \/ \E r \in Reqs : SubmitOtherError(r)

Spec == Init /\ [][Next]_vars

\* The read side: the jobs fill the tables, the list views read them.
ListNext ==
    \/ \E args \in JobArgs : RunFetchAccounts(args)
    \/ \E args \in JobArgs : RunFetchTransactions(args)
    \/ \E u \in Users : AccountsList(u)
    \/ \E u \in Users : TransactionList(u)

ListSpec == Init /\ [][ListNext]_vars

\* ------------------------------------------------------------------ claims

Done(r) == pc[r] = "done"

\* The positions in the PlaidItem table of the rows written with what
\* request r got from the exchange, for the user of request r.
RowsOf(r) ==
    { i \in DOMAIN plaidItems :
        /\ plaidItems[i].access_token = exchange_response[r].access_token
        /\ plaidItems[i].item_id = exchange_response[r].item_id
        /\ plaidItems[i].user = request[r].user }

\* The row request r saved is in the table, as it was written.
RowKept(r) ==
    /\ plaid_item[r] \in DOMAIN plaidItems
    /\ plaidItems[plaid_item[r]] =
         [identifier |-> plaid_item[r],
          access_token |-> exchange_response[r].access_token,
          item_id |-> exchange_response[r].item_id,
          user |-> request[r].user]

\* What the k-th submission of request r has to be.
ExpectedJob(r, k) ==
    [task |-> Tasks[k],
     args |-> <<request[r].user, plaid_item[r]>>,
     countdown |-> IF Tasks[k] = "fetch_transactions" THEN 20 ELSE 0]

\* C1: a request whose form is invalid (no public token, or an empty one)
\* ends with status 400 and an errors field, has called the exchange zero times, has created no
\* PlaidItem and submitted no job; and the step that rejects it changes
\* neither the PlaidItem table nor the broker.
C1_Rejected ==
    \A r \in Reqs :
        (Done(r) /\ ~is_valid(request[r].data)) =>
            /\ response[r].status = 400
            /\ "errors" \in DOMAIN response[r]
            /\ exchangeCalls[r] = 0
            /\ plaid_item[r] = 0
            /\ submitted[r] = <<>>
C1_RejectStep ==
    \A r \in Reqs :
        (pc[r] = "idle" /\ pc'[r] = "done") =>
            /\ plaidItems' = plaidItems
            /\ broker' = broker
            /\ exchangeCalls' = exchangeCalls
C1_InvalidTokenNoSideEffects == []C1_Rejected /\ [][C1_RejectStep]_vars

\* C1 witness: an invalid request has been answered while the table holds a
\* row of another request.
C1_Witness ==
    \E r \in Reqs :
        /\ Done(r) /\ ~is_valid(request[r].data)
        /\ response[r] = ValidationFailed
        /\ Len(plaidItems) > 0

\* C2: a request whose exchange raised a PlaidError with code X ends with
\* status 400 and the payload {message: X}, has created no PlaidItem and
\* submitted no job; and the step that answers it changes neither the
\* PlaidItem table nor the broker.
C2_Failed ==
    \A r \in Reqs :
        raised[r].exc = "PlaidError" =>
            /\ Done(r)
            /\ response[r] = [status |-> 400, message |-> raised[r].code]
            /\ plaid_item[r] = 0
            /\ submitted[r] = <<>>
C2_FailStep ==
    \A r \in Reqs :
        (pc[r] = "exchange" /\ pc'[r] = "done") =>
            /\ plaidItems' = plaidItems
            /\ broker' = broker
C2_ProviderErrorNoState == []C2_Failed /\ [][C2_FailStep]_vars

\* C2 witness: a provider error has been answered while the table holds a
\* row of another request.
C2_Witness ==
    \E r \in Reqs :
        /\ raised[r].exc = "PlaidError"
        /\ response[r].message = "INVALID_PUBLIC_TOKEN"
        /\ Len(plaidItems) > 0

\* C3 (as claimed): after a request that returned 201, exactly one PlaidItem
\* row holds the returned access_token and item_id for the requesting user,
\* also when the same user's requests got the same item_id from the exchange.
C3_ExactlyOneRow ==
    \A r \in Reqs :
        (Done(r) /\ response[r].status = 201) =>
            /\ response[r].success = TRUE
            /\ Cardinality(RowsOf(r)) = 1

\* C4 (as claimed): every request that saved a PlaidItem and returned 201 has
\* made exactly the three submissions.
C4_ExactlyThree ==
    \A r \in Reqs :
        (Done(r) /\ plaid_item[r] # 0 /\ response[r].status = 201) =>
            submitted[r] = <<ExpectedJob(r, 1), ExpectedJob(r, 2), ExpectedJob(r, 3)>>

\* C4 (amended): a request that saved a PlaidItem and returned 201 has made
\* exactly the three submissions when no submission raised, and fewer than
\* three when one raised an OperationalError; in both cases the k-th
\* submission made is the k-th of fetch_item_metadata, fetch_accounts_data
\* (immediate) and fetch_transactions (countdown 20), is on the broker, and
\* carries (id of the requesting user, identifier of the PlaidItem saved).
C4_ThreeUnlessOperationalError ==
    \A r \in Reqs :
        (Done(r) /\ plaid_item[r] # 0 /\ response[r].status = 201) =>
            /\ raised[r].exc = "none" => Len(submitted[r]) = 3
            /\ raised[r].exc # "none" =>
                 (raised[r].exc = "OperationalError" /\ Len(submitted[r]) < 3)
            /\ \A k \in 1..Len(submitted[r]) :
                 /\ submitted[r][k] = ExpectedJob(r, k)
                 /\ submitted[r][k] \in broker

\* C4 witness: one request returned 201 after all three submissions, another
\* returned 201 after one.
C4_Witness ==
    \E r, q \in Reqs :
        /\ Done(r) /\ response[r].status = 201 /\ Len(submitted[r]) = 3
        /\ Done(q) /\ response[q].status = 201 /\ Len(submitted[q]) = 1

\* C5: a request in which a submission raised an OperationalError returns 201
\* with success=true, and the PlaidItem it saved is still in the table with
\* the same access_token, item_id and user.
C5_OperationalErrorKeeps201 ==
    \A r \in Reqs :
        raised[r].exc = "OperationalError" =>
            /\ Done(r)
            /\ response[r].status = 201
            /\ response[r].success = TRUE
            /\ RowKept(r)

\* C5 witness: the first submission raised an OperationalError.
C5_Witness ==
    \E r \in Reqs :
        /\ raised[r].exc = "OperationalError"
        /\ Done(r)
        /\ submitted[r] = <<>>

\* C6 (as claimed): a request that saved its PlaidItem returns 201, whatever
\* happens during dispatch.
C6_AlwaysSuccessOnceSaved ==
    \A r \in Reqs :
        (Done(r) /\ plaid_item[r] # 0) => response[r].status = 201

\* C6 (amended): a request that saved its PlaidItem returns 201 when no
\* submission raised or one raised an OperationalError, at any of the three
\* submissions; a submission error of any other kind is not caught, and the
\* request then ends without a 201 response.
C6_SuccessUnlessOtherError ==
    \A r \in Reqs :
        (Done(r) /\ plaid_item[r] # 0) =>
            /\ raised[r].exc \in {"none", "OperationalError", "OtherError"}
            /\ raised[r].exc \in {"none", "OperationalError"} =>
                 response[r] = AccountAdded
            /\ raised[r].exc = "OtherError" => response[r].status = 500

\* C6 witness: the third submission raised an OperationalError in one
\* request, a submission raised another error in another request.
C6_Witness ==
    \E r, q \in Reqs :
        /\ Done(r) /\ raised[r].exc = "OperationalError" /\ Len(submitted[r]) = 2
        /\ Done(q) /\ raised[q].exc = "OtherError" /\ plaid_item[q] # 0

\* C7: a list response holds only rows owned by the user who asked for it.
C7_OnlyOwnRows ==
    listed # None => \A row \in listed.rows : row.user = listed.user

\* C7 witness: a transactions list was answered with rows while the table
\* holds a row of another user.
C7_Witness ==
    /\ listed # None
    /\ listed.view = "transactions"
    /\ listed.rows # {}
    /\ \E t \in transactions : t.user # listed.user
    /\ \E a \in accounts : a.user # listed.user

\* C8: every job submitted carries the identifier of a PlaidItem that is in
\* the table, owned by the user the job names; and a request whose save
\* failed has submitted no job and is answered without a 201.
C8_SaveBeforeDispatch ==
    /\ \A r \in Reqs : \A k \in 1..Len(submitted[r]) :
         \E i \in DOMAIN plaidItems :
            /\ plaidItems[i].identifier = submitted[r][k].args[2]
            /\ plaidItems[i].user = submitted[r][k].args[1]
    /\ \A j \in broker :
         \E i \in DOMAIN plaidItems : plaidItems[i].identifier = j.args[2]
    /\ \A r \in Reqs :
         pc[r] \in {"idle", "exchange", "save"} => submitted[r] = <<>>
    /\ \A r \in Reqs :
         raised[r].exc = "DatabaseError" =>
            /\ Done(r)
            /\ submitted[r] = <<>>
            /\ response[r].status # 201
            /\ ~ \E j \in broker : j.args[2] = plaid_item[r]

\* C8 witness: the save of one request failed, another request made its three
\* submissions.
C8_Witness ==
    \E r, q \in Reqs :
        /\ raised[r].exc = "DatabaseError"
        /\ Len(submitted[q]) = 3

\* C9: the exchange is called at most once in a request: not at all before
\* the form is found valid, exactly once in a request that has ended with a
\* valid form and zero times in one that ended with an invalid form; after a
\* PlaidError the request has ended with that one call.
C9_ExchangeAtMostOnce ==
    \A r \in Reqs :
        /\ exchangeCalls[r] <= 1
        /\ pc[r] \in {"idle", "exchange"} => exchangeCalls[r] = 0
        /\ Done(r) =>
             exchangeCalls[r] = IF request[r].data \in {NoToken, ""} THEN 0 ELSE 1
        /\ raised[r].exc = "PlaidError" => (Done(r) /\ exchangeCalls[r] = 1)

\* C9 witness: a request ended after a provider error, with one call.
C9_Witness ==
    \E r \in Reqs :
        /\ Done(r)
        /\ raised[r].exc = "PlaidError"
        /\ exchangeCalls[r] = 1

\* C10: the jobs a request has submitted are a prefix of fetch_item_metadata,
\* fetch_accounts_data, fetch_transactions; a submission that raised ended
\* the dispatch: the request is over and has submitted exactly the jobs
\* before the one that raised.
C10_PrefixOfTasks ==
    \A r \in Reqs :
        /\ Len(submitted[r]) <= 3
        /\ \A k \in 1..Len(submitted[r]) : submitted[r][k].task = Tasks[k]
        /\ raised[r].exc \in {"OperationalError", "OtherError"} =>
             (Done(r) /\ Len(submitted[r]) = step[r] - 1)
        /\ \A j \in broker :
             j.task = "fetch_transactions" =>
                /\ [j EXCEPT !.task = "fetch_item_metadata", !.countdown = 0] \in broker
                /\ [j EXCEPT !.task = "fetch_accounts_data", !.countdown = 0] \in broker

\* C10 witness: the second submission raised, after the first was made.
C10_Witness ==
    \E r \in Reqs :
        /\ raised[r].exc = "OperationalError"
        /\ Len(submitted[r]) = 1
        /\ submitted[r][1].task = "fetch_item_metadata"

====
